---- MODULE Spec2Model ----
(***************************************************************************)
(* Model of the multi-agent web development workflow                        *)
(* (src/src/ui/multi_agent.py, src/src/ui/app.py): the turn loop of         *)
(* run_multi_agent over an AgentGroupChat, the completion detector          *)
(* ApprovalTerminationStrategy, the publish gate handle_approval and the    *)
(* Streamlit session of app.py.                                             *)
(*                                                                          *)
(* Texts are sequences of tokens.  A token stands for a run of characters   *)
(* that the program's string operations treat as a unit:                    *)
(*   "sp"        whitespace                                                 *)
(*   "w"         ordinary words                                             *)
(*   "RFUA"      the phrase READY FOR USER APPROVAL in upper case           *)
(*   "rfua"      the same phrase in lower or mixed case                     *)
(*   "FH" "Fh"   an opening fence ```html / ```HTML                         *)
(*   "F"         a bare fence ```                                           *)
(*   "big" "big2" "BIG" "BIG2"   page payloads longer than 50 characters    *)
(*   "small" "SMALL"             a payload of at most 50 characters         *)
(*   "APPROVED" "approved" "Approved"   the approval word in three casings  *)
(*   "x"         any other characters of a decision ("!", "not", ...)       *)
(*   "SoftwareEngineer" "engineer" "ProductOwner" "Product" "Owner"          *)
(*   "BusinessAnalyst"   words of an answer of the selection function        *)
(***************************************************************************)
EXTENDS Integers, Sequences, FiniteSets, TLC

VARIABLES
    mode,            \* "terminal" | "streamlit" | "call" (a direct call of one function)
    pc,              \* position of the program
    history,         \* chat.history: the messages of the current run
    message_count,   \* run_multi_agent local
    ba_asked,        \* run_multi_agent local
    business_analyst_questions, \* run_multi_agent local
    workflow_status, \* run_multi_agent local dict
    iterations,      \* turns taken by chat.invoke() in this run
    is_complete,     \* AgentGroupChat.is_complete
    selector,        \* behaviour of the selection function for the rest of the run
    loop_exit,       \* why the async for loop ended
    outcome,         \* outcome of the last run
    decision,        \* the decision last entered by the user / passed to the gate
    html_code,       \* first value returned by handle_approval
    result_message,  \* second value returned by handle_approval
    file,            \* content of HTML_OUTPUT_FILE (<<>>: no file written)
    n_writes,        \* number of writes of HTML_OUTPUT_FILE
    n_pushes,        \* number of calls of execute_git_push_with_script
    session_state,   \* st.session_state of app.py
    runs,            \* number of runs started in this session
    push_env,        \* what the push step finds on the machine (NoEnv: not drawn)
    push_success,    \* what the last call of execute_git_push_with_script did
    publisher,       \* the function that wrote the output file last
    stop_clicked,    \* a click on Stop & Reset that no script run has handled yet
    selection        \* an answer of the selection function and the role parsed from it

vars == <<mode, pc, history, message_count, ba_asked, business_analyst_questions,
          workflow_status, iterations, is_complete, selector, loop_exit, outcome,
          decision, html_code, result_message, file, n_writes, n_pushes,
          session_state, runs, push_env, push_success, publisher, stop_clicked,
          selection>>

-----------------------------------------------------------------------------
(* Bounds of the model *)

\* the selection function chooses freely for this many turns of a run
FreeTurns == 1
\* iteration cap of the chat framework's invoke loop
MaximumIterations == 23
\* runs per Streamlit session
MaxRuns == 2
\* length of the decision strings handed to the gate directly
MaxDecisionLen == 3
\* length of the histories handed to the completion detector directly
MaxDetectorLen == 6
\* length of the texts handed to the extractor directly
MaxExtractLen == 4
\* length of the answers handed to the selection parser directly
MaxSelectorLen == 3

(* Program constants *)

TerminationWindow == 5
ApprovalWindow == 5
SafetyLimit == 20
QuestionLimit == 2
MinHtmlLen == 50

-----------------------------------------------------------------------------
(* Strings *)

SeqsUpTo(S, n) == UNION {[1..k -> S] : k \in 0..n}

\* one character class of str.upper()
UpperTok(t) ==
    CASE t = "rfua" -> "RFUA"
      [] t = "approved" -> "APPROVED"
      [] t = "Approved" -> "APPROVED"
      [] t = "w" -> "W"
      [] t = "x" -> "X"
      [] t = "FH" -> "Fh"
      [] t = "big" -> "BIG"
      [] t = "big2" -> "BIG2"
      [] t = "small" -> "SMALL"
      [] t = "SoftwareEngineer" -> "SOFTWAREENGINEER"
      [] t = "engineer" -> "ENGINEER"
      [] t = "ProductOwner" -> "PRODUCTOWNER"
      [] t = "Product" -> "PRODUCT"
      [] t = "Owner" -> "OWNER"
      [] t = "BusinessAnalyst" -> "BUSINESSANALYST"
      [] OTHER -> t

Upper(s) == [i \in 1..Len(s) |-> UpperTok(s[i])]

\* str.strip(): leading and trailing whitespace removed
Strip(s) ==
    LET nonsp == {i \in 1..Len(s) : s[i] # "sp"}
    IN IF nonsp = {} THEN <<>>
       ELSE LET lo == CHOOSE i \in nonsp : \A j \in nonsp : i <= j
                hi == CHOOSE i \in nonsp : \A j \in nonsp : j <= i
            IN SubSeq(s, lo, hi)

\* "READY FOR USER APPROVAL" in s
ContainsMarker(s) == \E i \in 1..Len(s) : s[i] = "RFUA"

TokLen(t) ==
    CASE t = "sp" -> 1
      [] t \in {"w", "W"} -> 5
      [] t \in {"x", "X"} -> 3
      [] t \in {"RFUA", "rfua"} -> 23
      [] t \in {"FH", "Fh"} -> 7
      [] t = "F" -> 3
      [] t \in {"small", "SMALL"} -> 10
      [] t \in {"big", "BIG"} -> 60
      [] t \in {"big2", "BIG2"} -> 70
      [] OTHER -> 8

RECURSIVE StrLen(_)
StrLen(s) == IF s = <<>> THEN 0 ELSE TokLen(Head(s)) + StrLen(Tail(s))

\* mutant: the tag of the fence is matched in lower case only
extract_html_caseSensitive(text) ==
    LET opens == {i \in 1..Len(text) : text[i] = "FH"}
        closes(i) == {j \in (i+1)..Len(text) : text[j] \in {"F", "FH", "Fh"}}
        starts == {i \in opens : closes(i) # {}}
    IN IF starts = {} THEN Strip(text)
       ELSE LET i == CHOOSE a \in starts : \A b \in starts : a <= b
                j == CHOOSE a \in closes(i) : \A b \in closes(i) : a <= b
            IN Strip(SubSeq(text, i + 1, j - 1))

\* mutant: a text without a complete fence yields nothing
extract_html_noFallback(text) ==
    LET opens == {i \in 1..Len(text) : text[i] \in {"FH", "Fh"}}
        closes(i) == {j \in (i+1)..Len(text) : text[j] \in {"F", "FH", "Fh"}}
        starts == {i \in opens : closes(i) # {}}
    IN IF starts = {} THEN <<>>
       ELSE LET i == CHOOSE a \in starts : \A b \in starts : a <= b
                j == CHOOSE a \in closes(i) : \A b \in closes(i) : a <= b
            IN Strip(SubSeq(text, i + 1, j - 1))

\* _HTML_RE.search(text); match.group(1).strip(), else text.strip()
extract_html(text) ==
    LET opens == {i \in 1..Len(text) : text[i] \in {"FH", "Fh"}}
        closes(i) == {j \in (i+1)..Len(text) : text[j] \in {"F", "FH", "Fh"}}
        starts == {i \in opens : closes(i) # {}}
    IN IF starts = {} THEN Strip(text)
       ELSE LET i == CHOOSE a \in starts : \A b \in starts : a <= b
                j == CHOOSE a \in closes(i) : \A b \in closes(i) : a <= b
            IN Strip(SubSeq(text, i + 1, j - 1))

-----------------------------------------------------------------------------
(* Messages *)

BA == "BusinessAnalyst"
SE == "SoftwareEngineer"
PO == "ProductOwner"
NoName == "None"

Msg(n, r, c) == [name |-> n, role |-> r, content |-> c]
AgentMsg(n, c) == Msg(n, "assistant", c)
UserMsg(c) == Msg(NoName, "user", c)

LastN(h, n) == IF Len(h) <= n THEN h ELSE SubSeq(h, Len(h) - n + 1, Len(h))

-----------------------------------------------------------------------------
(* Completion detector *)

\* mutant: the speaker is not checked
TerminationMatch_anySpeaker(message) ==
    /\ message.content # <<>>
    /\ ContainsMarker(Upper(Strip(message.content)))

\* the condition of the if statement on one message
TerminationMatch(message) ==
    /\ message.name = PO
    /\ message.content # <<>>
    /\ ContainsMarker(Upper(Strip(message.content)))

\* ApprovalTerminationStrategy.should_agent_terminate
should_agent_terminate(h) ==
    LET w == LastN(h, TerminationWindow)
    IN \E i \in 1..Len(w) : TerminationMatch(w[i])

-----------------------------------------------------------------------------
(* Approval checks *)

Approved == <<"APPROVED">>

\* a decision argument: given = FALSE is None or an omitted argument
Given(text) == [given |-> TRUE, text |-> text]
Absent == [given |-> FALSE, text |-> <<>>]

\* mutant: the approval word is searched for in the decision
GateAccepts_substring(user_decision) ==
    LET d == IF user_decision.given THEN user_decision.text ELSE Approved
    IN \E i \in 1..Len(d) : Upper(d)[i] = "APPROVED"

\* handle_approval: the default value, the None replacement and the security check
GateAccepts(user_decision) ==
    LET d == IF user_decision.given THEN user_decision.text ELSE Approved
    IN Upper(d) = Approved

\* mutant: the approval word is searched for in the typed line
TerminalAccepts_substring(typed) ==
    LET u == Upper(Strip(typed))
    IN \E i \in 1..Len(u) : u[i] = "APPROVED"

\* run_multi_agent, terminal mode: input().strip(), then .upper() == "APPROVED"
TerminalAccepts(typed) == Upper(Strip(typed)) = Approved

\* app.py approval form: approval_text.strip().upper() == "APPROVED"
FormAccepts(approval_text) == Upper(Strip(approval_text)) = Approved

-----------------------------------------------------------------------------
(* Push step: execute_git_push_with_script *)

\* timeout of subprocess.run, in seconds
PushTimeout == 300

Return(v) == [kind |-> "return", value |-> v]
Raise(e) == [kind |-> "raise", value |-> e]
Blocked == [kind |-> "blocked", value |-> "none"]

\* what the external process does once it is started
RunOutcomes == {"exit0", "exit1", "hangs", "OSError"}

\* what the push step finds on the machine:
\*   script              PUSH_SCRIPT is not None
\*   which_bash          shutil.which("bash"): nothing, a path with "Git" in it,
\*                       another path
\*   program_files_bash  one of the two hardcoded Git Bash paths exists
\*   sh                  shutil.which("sh") finds a shell
\*   run                 the behaviour of the started process
\*   git_dir             the target location has a .git directory (nothing in
\*                       the push step reads it)
PushEnvs ==
    [script : BOOLEAN, which_bash : {"none", "git", "plain"},
     program_files_bash : BOOLEAN, sh : BOOLEAN, run : RunOutcomes,
     git_dir : BOOLEAN]

NoEnv == "NoEnv"

\* find_git_bash(): the first existing path with "Git" in it, else the first
\* existing path
find_git_bash(env) ==
    IF env.which_bash = "git" THEN "which"
    ELSE IF env.program_files_bash THEN "program_files"
    ELSE IF env.which_bash = "plain" THEN "which"
    ELSE "None"

\* git_bash after the fallback to sh
ShellFor(env) ==
    IF find_git_bash(env) # "None" THEN find_git_bash(env)
    ELSE IF env.sh THEN "sh"
    ELSE "None"

\* subprocess.run(..., timeout=timeout)
subprocess_run(env, timeout) ==
    CASE env.run = "exit0" -> Return("0")
      [] env.run = "exit1" -> Return("1")
      [] env.run = "hangs" -> IF timeout > 0 THEN Raise("TimeoutExpired") ELSE Blocked
      [] env.run = "OSError" -> Raise("OSError")

\* the body of the try statement
PushBody(env) ==
    IF ~env.script THEN Return("False")
    ELSE IF ShellFor(env) = "None" THEN Return("False")
    ELSE LET result == subprocess_run(env, PushTimeout)
         IN IF result.kind = "return"
            THEN Return(IF result.value = "0" THEN "True" ELSE "False")
            ELSE result

\* the exceptions of class Exception that the started process can end in
ExceptionClasses == {"TimeoutExpired", "OSError"}

\* mutant: only the timeout is caught
PushCatches_timeoutOnly(exc) == exc = "TimeoutExpired"

\* the except clauses: subprocess.TimeoutExpired, then Exception
PushCatches(exc) == exc = "TimeoutExpired" \/ exc \in ExceptionClasses

\* execute_git_push_with_script(): what the call does, as a string:
\* "True" / "False" returned, "Raised", "Blocked"
execute_git_push_with_script(env) ==
    LET r == PushBody(env)
    IN IF r.kind = "raise"
       THEN IF PushCatches(r.value) THEN "False" ELSE "Raised"
       ELSE IF r.kind = "blocked" THEN "Blocked"
       ELSE r.value

\* everything a call of the push step can do
PushResults == {execute_git_push_with_script(env) : env \in PushEnvs}

-----------------------------------------------------------------------------
(* Publish gate *)

NoHtml == <<>>

ResultMsg(kind, typed, push, size) ==
    [kind |-> kind, typed |-> typed, push_success |-> push, size |-> size]
NoResultMsg == ResultMsg("none", <<>>, FALSE, 0)

\* the qualifying test on one message of the scan
HtmlCandidate(message) ==
    /\ message.name = SE
    /\ LET extracted_html == extract_html(message.content)
       IN extracted_html # <<>> /\ StrLen(extracted_html) > MinHtmlLen

\* mutant: the scan keeps the last qualifying message
FindHtml_last(chat_history) ==
    LET c == {i \in 1..Len(chat_history) : HtmlCandidate(chat_history[i])}
    IN IF c = {} THEN NoHtml
       ELSE extract_html(chat_history[CHOOSE i \in c : \A j \in c : j <= i].content)

\* the scan for the HTML code: first qualifying message in history order
FindHtml(chat_history) ==
    LET c == {i \in 1..Len(chat_history) : HtmlCandidate(chat_history[i])}
    IN IF c = {} THEN NoHtml
       ELSE extract_html(chat_history[CHOOSE i \in c : \A j \in c : i <= j].content)

\* mutant: the artifact is appended to the output file
WriteText_append(old, html) == old \o html

\* HTML_OUTPUT_FILE.write_text(html_code): the content of the file afterwards
WriteText(old, html) == html

\* mutant: the push step is started whatever the write did
PushReached_always(writeOk) == TRUE

\* the try statement around write_text: its except clause returns, so the call
\* of the push step is reached only when the write succeeded
PushReached(writeOk) == writeOk

\* mutant: a failed push is returned as a failure without the artifact
SavedResult_failsOnPush(html, push) ==
    IF push = "True"
    THEN [html_code |-> html, result_message |-> ResultMsg("saved", <<>>, TRUE, StrLen(html))]
    ELSE [html_code |-> NoHtml, result_message |-> ResultMsg("exception", <<>>, FALSE, 0)]

\* handle_approval from the return of the push step on: the result message
\* with the links or with the local file, or the outer except clause
SavedResult(html, push) ==
    IF push = "Raised"
    THEN [html_code |-> NoHtml, result_message |-> ResultMsg("exception", <<>>, FALSE, 0)]
    ELSE [html_code |-> html,
          result_message |-> ResultMsg("saved", <<>>, push = "True", StrLen(html))]

\* handle_approval(chat_history, user_decision): what it returns and what it
\* does to the output file and the push step, given whether the write
\* succeeds and what the push step does
handle_approval(chat_history, user_decision, writeOk, push) ==
    LET d == IF user_decision.given THEN user_decision.text ELSE Approved
        html == FindHtml(chat_history)
    IN IF ~GateAccepts(user_decision)
       THEN [html_code |-> NoHtml, result_message |-> ResultMsg("not_approved", d, FALSE, 0),
             wrote |-> FALSE, pushed |-> FALSE]
       ELSE IF html = NoHtml
       THEN [html_code |-> NoHtml, result_message |-> ResultMsg("no_html", <<>>, FALSE, 0),
             wrote |-> FALSE, pushed |-> FALSE]
       ELSE IF ~writeOk
       THEN [html_code |-> NoHtml, result_message |-> ResultMsg("save_failed", <<>>, FALSE, 0),
             wrote |-> FALSE, pushed |-> PushReached(writeOk)]
       ELSE [html_code |-> SavedResult(html, push).html_code,
             result_message |-> SavedResult(html, push).result_message,
             wrote |-> TRUE, pushed |-> PushReached(writeOk)]

-----------------------------------------------------------------------------
(* Session state of app.py *)

NoRequest == <<>>
NoSelection == [output |-> <<>>, name |-> NoName]
NoData == <<>>
NoDeployment == [present |-> FALSE, success |-> FALSE, html_content |-> <<>>, links |-> FALSE]

\* the initialisation of st.session_state, which is also what every reset writes
FreshSession ==
    [multi_agent_processing |-> FALSE,
     reset_requested |-> FALSE,
     awaiting_approval |-> FALSE,
     approval_data |-> NoData,
     deployment_result |-> NoDeployment,
     safety_limit_reached |-> FALSE,
     pending_request |-> NoRequest]

\* the locals of run_multi_agent before the loop
FreshStatus ==
    [completed |-> FALSE, safety_limit_reached |-> FALSE, approval_ready |-> FALSE]

\* everything but mode, pc, history and decision, before anything has run
Quiet ==
    /\ message_count = 0
    /\ ba_asked = FALSE
    /\ business_analyst_questions = 0
    /\ workflow_status = FreshStatus
    /\ iterations = 0
    /\ is_complete = FALSE
    /\ selector = "free"
    /\ loop_exit = "none"
    /\ outcome = "Pending"
    /\ html_code = NoHtml
    /\ result_message = NoResultMsg
    /\ file = <<>>
    /\ n_writes = 0
    /\ n_pushes = 0
    /\ session_state = FreshSession
    /\ runs = 0
    /\ push_success = "None"
    /\ publisher = "none"
    /\ stop_clicked = FALSE

-----------------------------------------------------------------------------
(* Direct calls of the completion detector *)

DetectorMessages ==
    {AgentMsg(SE, <<"w">>), AgentMsg(SE, <<"RFUA">>),
     AgentMsg(PO, <<"w">>), AgentMsg(PO, <<"RFUA">>),
     AgentMsg(PO, <<"sp", "rfua", "sp">>)}

InitDetector ==
    /\ mode = "call"
    /\ pc = "detector_call"
    /\ history \in SeqsUpTo(DetectorMessages, MaxDetectorLen)
    /\ decision = Absent
    /\ push_env = NoEnv
    /\ selection = NoSelection
    /\ Quiet

\* termination_strategy.should_terminate(agent, history) sets is_complete
DetectorCall ==
    /\ pc = "detector_call"
    /\ is_complete' = should_agent_terminate(history)
    /\ pc' = "detector_done"
    /\ UNCHANGED <<selection, mode, push_env, history, message_count, ba_asked,
                   business_analyst_questions, workflow_status, iterations, selector,
                   loop_exit, outcome, decision, html_code, result_message, file,
                   n_writes, n_pushes, push_success, publisher, stop_clicked,
                   session_state, runs>>

SpecDetector == InitDetector /\ [][DetectorCall]_vars

-----------------------------------------------------------------------------
(* Direct calls of the push step *)

InitPush ==
    /\ mode = "call"
    /\ pc = "push_call"
    /\ history = <<>>
    /\ decision = Absent
    /\ push_env \in PushEnvs
    /\ selection = NoSelection
    /\ Quiet

\* one call execute_git_push_with_script()
PushCall ==
    /\ pc = "push_call"
    /\ push_success' = execute_git_push_with_script(push_env)
    /\ n_pushes' = n_pushes + 1
    /\ pc' = "push_done"
    /\ UNCHANGED <<selection, mode, push_env, history, message_count, ba_asked,
                   business_analyst_questions, workflow_status, iterations,
                   is_complete, selector, loop_exit, outcome, decision, html_code,
                   result_message, file, n_writes, publisher, stop_clicked,
                   session_state, runs>>

SpecPush == InitPush /\ [][PushCall]_vars

-----------------------------------------------------------------------------
(* Direct calls of the publish gate *)

DecisionTokens == {"sp", "APPROVED", "approved", "Approved", "x"}

GateDecisions ==
    {Absent} \cup {Given(t) : t \in SeqsUpTo(DecisionTokens, MaxDecisionLen)}

HtmlBig == <<"w", "sp", "FH", "sp", "big", "sp", "F", "sp", "w">>
HtmlBig2 == <<"FH", "big2", "F">>
HtmlSmall == <<"FH", "small", "F">>
Prose == <<"w">>
ProseReady == <<"w", "sp", "RFUA">>
PlainBig == <<"sp", "big", "sp", "w", "sp">>
UnclosedBig == <<"sp", "FH", "big">>

GateHistories ==
    {<<UserMsg(Prose), AgentMsg(BA, Prose), AgentMsg(SE, HtmlBig), AgentMsg(PO, ProseReady)>>,
     <<UserMsg(Prose), AgentMsg(SE, HtmlSmall), AgentMsg(PO, ProseReady)>>,
     <<UserMsg(Prose), AgentMsg(BA, HtmlBig), AgentMsg(PO, ProseReady)>>,
     <<UserMsg(Prose), AgentMsg(SE, HtmlSmall), AgentMsg(SE, HtmlBig2), AgentMsg(SE, HtmlBig)>>,
     <<UserMsg(Prose), AgentMsg(SE, PlainBig), AgentMsg(SE, HtmlBig), AgentMsg(PO, ProseReady)>>,
     <<UserMsg(Prose), AgentMsg(BA, Prose), AgentMsg(SE, UnclosedBig), AgentMsg(SE, HtmlBig2)>>}

InitGate ==
    /\ mode = "call"
    /\ pc = "gate_call"
    /\ history \in GateHistories
    /\ decision \in GateDecisions
    /\ push_env = NoEnv
    /\ selection = NoSelection
    /\ Quiet

\* one call handle_approval(history, decision)
GateCall ==
    /\ pc = "gate_call"
    /\ \E writeOk \in BOOLEAN, push \in PushResults :
         LET r == handle_approval(history, decision, writeOk, push)
         IN /\ html_code' = r.html_code
            /\ result_message' = r.result_message
            /\ file' = IF r.wrote THEN WriteText(file, FindHtml(history)) ELSE file
            /\ n_writes' = IF r.wrote THEN n_writes + 1 ELSE n_writes
            /\ n_pushes' = IF r.pushed THEN n_pushes + 1 ELSE n_pushes
            /\ push_success' = IF r.pushed THEN push ELSE push_success
            /\ publisher' = IF r.wrote THEN "handle_approval" ELSE publisher
    /\ pc' = "gate_done"
    /\ UNCHANGED <<selection, mode, push_env, history, message_count, ba_asked,
                   business_analyst_questions, workflow_status, iterations,
                   is_complete, selector, loop_exit, outcome, decision, session_state,
                   runs, stop_clicked>>

\* a second call handle_approval(history, decision) after one that saved
GateCallAgain ==
    /\ pc = "gate_done"
    /\ result_message.kind = "saved"
    /\ \E writeOk \in BOOLEAN, push \in PushResults :
         LET r == handle_approval(history, decision, writeOk, push)
         IN /\ html_code' = r.html_code
            /\ result_message' = r.result_message
            /\ file' = IF r.wrote THEN WriteText(file, FindHtml(history)) ELSE file
            /\ n_writes' = IF r.wrote THEN n_writes + 1 ELSE n_writes
            /\ n_pushes' = IF r.pushed THEN n_pushes + 1 ELSE n_pushes
            /\ push_success' = IF r.pushed THEN push ELSE push_success
            /\ publisher' = IF r.wrote THEN "handle_approval" ELSE publisher
    /\ pc' = "gate_again"
    /\ UNCHANGED <<selection, mode, push_env, history, message_count, ba_asked,
                   business_analyst_questions, workflow_status, iterations, is_complete,
                   selector, loop_exit, outcome, decision, session_state, runs,
                   stop_clicked>>

SpecGate == InitGate /\ [][GateCall \/ GateCallAgain]_vars

-----------------------------------------------------------------------------
(* Direct calls of the extractor *)

ExtractTokens == {"sp", "w", "FH", "Fh", "F", "small"}

NoFences == <<"w", "sp", "w", "sp", "w">>

ExtractTexts == SeqsUpTo(ExtractTokens, MaxExtractLen) \cup {NoFences, HtmlBig}

InitExtract ==
    /\ mode = "call"
    /\ pc = "extract_call"
    /\ \E text \in ExtractTexts : history = <<AgentMsg(SE, text)>>
    /\ decision = Absent
    /\ push_env = NoEnv
    /\ selection = NoSelection
    /\ Quiet

\* one call _extract_html(message.content)
ExtractCall ==
    /\ pc = "extract_call"
    /\ html_code' = extract_html(history[1].content)
    /\ pc' = "extract_done"
    /\ UNCHANGED <<selection, mode, push_env, history, message_count, ba_asked,
                   business_analyst_questions, workflow_status, iterations, is_complete,
                   selector, loop_exit, outcome, decision, result_message, file,
                   n_writes, n_pushes, push_success, publisher, stop_clicked,
                   session_state, runs>>

SpecExtract == InitExtract /\ [][ExtractCall]_vars

-----------------------------------------------------------------------------
(* Direct calls of the selection parser *)

\* word in s, for the three words the parser looks for in an upper-cased text
HasWord(s, word) ==
    CASE word = "SOFTWAREENGINEER" -> \E i \in 1..Len(s) : s[i] = "SOFTWAREENGINEER"
      [] word = "ENGINEER" ->
            \E i \in 1..Len(s) : s[i] \in {"SOFTWAREENGINEER", "ENGINEER"}
      [] word = "PRODUCTOWNER" ->
            \E i \in 1..Len(s) :
               \/ s[i] = "PRODUCTOWNER"
               \/ i < Len(s) /\ s[i] = "PRODUCT" /\ s[i + 1] = "OWNER"

\* mutant: the ProductOwner test comes first
parse_agent_selection_ownerFirst(result) ==
    LET result_str == Upper(Strip(result))
    IN IF HasWord(result_str, "PRODUCTOWNER") THEN PO
       ELSE IF HasWord(result_str, "SOFTWAREENGINEER") THEN SE
       ELSE IF HasWord(result_str, "ENGINEER") THEN SE
       ELSE BA

parse_agent_selection(result) ==
    LET result_str == Upper(Strip(result))
    IN IF HasWord(result_str, "SOFTWAREENGINEER") THEN SE
       ELSE IF HasWord(result_str, "ENGINEER") THEN SE
       ELSE IF HasWord(result_str, "PRODUCTOWNER") THEN PO
       ELSE BA

SelectorTokens == {"sp", "w", "SoftwareEngineer", "engineer", "ProductOwner",
                   "Product", "Owner", "BusinessAnalyst"}

SelectorOutputs == SeqsUpTo(SelectorTokens, MaxSelectorLen)

InitParse ==
    /\ mode = "call"
    /\ pc = "parse_call"
    /\ history = <<>>
    /\ decision = Absent
    /\ push_env = NoEnv
    /\ \E output \in SelectorOutputs : selection = [output |-> output, name |-> NoName]
    /\ Quiet

\* one call parse_agent_selection(result)
ParseCall ==
    /\ pc = "parse_call"
    /\ selection' = [selection EXCEPT !.name = parse_agent_selection(selection.output)]
    /\ pc' = "parse_done"
    /\ UNCHANGED <<mode, push_env, history, message_count, ba_asked,
                   business_analyst_questions, workflow_status, iterations, is_complete,
                   selector, loop_exit, outcome, decision, html_code, result_message,
                   file, n_writes, n_pushes, push_success, publisher, stop_clicked,
                   session_state, runs>>

SpecParse == InitParse /\ [][ParseCall]_vars

-----------------------------------------------------------------------------
(* The replies of the language model *)

Roles == {BA, SE, PO}

UserRequests == {Prose, <<"RFUA">>}

\* what a role may answer while the selection is free
Replies(role) ==
    CASE role = BA -> {Prose, ProseReady}
      [] role = SE -> {HtmlBig, HtmlSmall, ProseReady}
      [] role = PO -> {Prose, ProseReady, <<"rfua", "sp">>}

\* what a role answers once the selection follows a fixed pattern
LaterReplies(role) ==
    CASE role = BA -> {ProseReady}
      [] role = SE -> {HtmlBig2}
      [] role = PO -> {Prose, ProseReady}

LastSpeaker(h) == h[Len(h)].name

\* the selection prompt's rules 1-4, as the selection function follows them
ByRules(h) ==
    CASE LastSpeaker(h) = NoName -> BA
      [] LastSpeaker(h) = BA -> SE
      [] LastSpeaker(h) = SE -> PO
      [] LastSpeaker(h) = PO -> SE

\* a selection function that keeps naming the role that just spoke
ByRepeat(h) == IF LastSpeaker(h) = NoName THEN BA ELSE LastSpeaker(h)

\* a selection function that goes back to the BusinessAnalyst after every
\* other role's turn
ByAlternate(h) == IF LastSpeaker(h) = BA THEN SE ELSE BA

\* the (role, reply) pairs the chat may produce next
Produced(sel, h) ==
    CASE sel = "free" -> UNION {{<<r, t>> : t \in Replies(r)} : r \in Roles}
      [] sel = "rules" -> {<<ByRules(h), t>> : t \in LaterReplies(ByRules(h))}
      [] sel = "repeat" -> {<<ByRepeat(h), t>> : t \in LaterReplies(ByRepeat(h))}
      [] sel = "alternate" -> {<<ByAlternate(h), t>> : t \in LaterReplies(ByAlternate(h))}

Patterns == {"rules", "repeat", "alternate"}

-----------------------------------------------------------------------------
(* run_multi_agent *)

\* mutant: the loop body does not look for the marker
ReadyDetected_never(agent_name, content) == FALSE

\* mutant: the speaker is not checked
ReadyDetected_anySpeaker(agent_name, content) ==
    ContainsMarker(Upper(content))

\* the in-loop check for ProductOwner approval
ReadyDetected(agent_name, content) ==
    agent_name = PO /\ ContainsMarker(Upper(content))

\* the skip of repeated BusinessAnalyst messages
\* mutant: no BusinessAnalyst message is skipped
Skipped_never(agent_name, asked) == FALSE

Skipped(agent_name, asked) == agent_name = BA /\ asked

\* the safety check
\* mutant: a skipped message is counted too
Counted_always(count, skip) == count + 1

\* message_count after a message: `continue` comes before `message_count += 1`
Counted(count, skip) == IF skip THEN count ELSE count + 1

SafetyExceeded(count) == count > SafetyLimit

\* mutant: the safety check comes before the check for approval
TurnBreak_safetyFirst(detected, exceeded) ==
    IF exceeded THEN "break_safety"
    ELSE IF detected THEN "break_ready"
    ELSE "none"

\* the order of the two break statements of the loop body: the check for
\* ProductOwner approval, then the safety check
TurnBreak(detected, exceeded) ==
    IF detected THEN "break_ready"
    ELSE IF exceeded THEN "break_safety"
    ELSE "none"

\* mutant: the safety check sets its flag and does not leave the loop
LoopEnds_ignoresSafety(brk, exhausted) == brk = "break_ready" \/ exhausted

\* the loop is left by a break statement or when chat.invoke() is exhausted
LoopEnds(brk, exhausted) == brk # "none" \/ exhausted

\* the check that the BusinessAnalyst asked too many questions
\* mutant: the completion message is synthesized from the first question on
TooManyQuestions_fromFirst(agent_name, questions) ==
    agent_name = BA /\ questions > 0

TooManyQuestions(agent_name, questions) ==
    agent_name = BA /\ questions > QuestionLimit

SynthesizedMsg == AgentMsg(BA, <<"w", "sp", "w">>)

\* approval_in_history after the loop
approval_in_history(h) ==
    LET w == LastN(h, ApprovalWindow)
    IN \E i \in 1..Len(w) :
          /\ w[i].name = PO
          /\ w[i].content # <<>>
          /\ ContainsMarker(Upper(w[i].content))

\* mutant: a run that did not hit the safety limit asks for approval
RunStatus_alwaysAwaits(safety_limit_reached, approval) ==
    IF safety_limit_reached THEN "safety_limit_reached" ELSE "awaiting_approval"

\* the branch run_multi_agent returns through
RunStatus(safety_limit_reached, approval) ==
    IF safety_limit_reached THEN "safety_limit_reached"
    ELSE IF approval THEN "awaiting_approval"
    ELSE "incomplete"

OutcomeOf(status) ==
    CASE status = "safety_limit_reached" -> "SafetyLimitExceeded"
      [] status = "awaiting_approval" -> "ReadyForApproval"
      [] status = "incomplete" -> "Incomplete"

\* the start of run_multi_agent up to the loop
BeginRun(user_input) ==
    /\ history' = <<UserMsg(user_input)>>
    /\ message_count' = 0
    /\ ba_asked' = FALSE
    /\ business_analyst_questions' = 0
    /\ workflow_status' = FreshStatus
    /\ iterations' = 0
    /\ is_complete' = FALSE
    /\ selector' \in (IF FreeTurns = 0 THEN Patterns ELSE {"free"})
    /\ loop_exit' = "none"
    /\ outcome' = "Pending"
    /\ runs' = runs + 1
    /\ pc' = "loop"

\* one turn: the chat selects a role, the role replies, the chat appends the
\* reply and evaluates the termination strategy, and the loop body runs on it
Turn ==
    /\ pc = "loop"
    /\ \E p \in Produced(selector, history) :
        LET agent_name == p[1]
            content == p[2]
            h1 == Append(history, AgentMsg(agent_name, content))
            complete1 == should_agent_terminate(h1)
            skip == Skipped(agent_name, ba_asked)
            count1 == message_count + 1
            questions1 == IF agent_name = BA THEN business_analyst_questions + 1
                          ELSE business_analyst_questions
            brk == TurnBreak(~skip /\ ReadyDetected(agent_name, content),
                             ~skip /\ SafetyExceeded(count1))
            ready == brk = "break_ready"
            safety == brk = "break_safety"
            synth == ~skip /\ ~ready /\ ~safety /\ TooManyQuestions(agent_name, questions1)
            exhausted == complete1 \/ iterations + 1 >= MaximumIterations
        IN /\ iterations' = iterations + 1
           /\ is_complete' = complete1
           /\ history' = IF synth THEN Append(h1, SynthesizedMsg) ELSE h1
           /\ message_count' = Counted(message_count, skip)
           /\ business_analyst_questions' =
                 IF skip THEN business_analyst_questions ELSE questions1
           /\ ba_asked' = IF skip THEN ba_asked
                          ELSE IF synth THEN FALSE
                          ELSE IF agent_name = BA THEN TRUE ELSE ba_asked
           /\ workflow_status' =
                 IF ready THEN [workflow_status EXCEPT !.approval_ready = TRUE]
                 ELSE IF safety THEN [workflow_status EXCEPT !.safety_limit_reached = TRUE]
                 ELSE workflow_status
           /\ loop_exit' = IF ready THEN "break_ready"
                           ELSE IF safety THEN "break_safety"
                           ELSE IF complete1 THEN "complete"
                           ELSE IF exhausted THEN "max_iterations"
                           ELSE "none"
           /\ pc' = IF LoopEnds(brk, exhausted) THEN "post_loop" ELSE "loop"
    /\ selector' \in (IF selector = "free" /\ iterations + 1 >= FreeTurns
                      THEN Patterns ELSE {selector})
    /\ UNCHANGED <<selection, mode, push_env, outcome, decision, html_code, result_message, file,
                   n_writes, n_pushes, push_success, publisher, stop_clicked,
                   session_state, runs>>

\* the locals of a run that has returned or raised
DropRun ==
    /\ history' = <<>>
    /\ message_count' = 0
    /\ ba_asked' = FALSE
    /\ business_analyst_questions' = 0
    /\ workflow_status' = FreshStatus
    /\ iterations' = 0
    /\ is_complete' = FALSE
    /\ selector' = "free"
    /\ loop_exit' = "none"

\* a click on Stop & Reset that arrived while run_multi_agent was running
\* reaches the script only after the run has returned: either the script is
\* rerun with the click and the handler of the button resets the session, or
\* the script ends with multi_agent_processing = False and the rerun no
\* longer draws the button
ClickHandled(clicked) == IF clicked THEN BOOLEAN ELSE {FALSE}

\* mutant: the safety limit branch is a copy of the approval branch
AfterRun_safetyAwaits(ss, status, chat_history) ==
    LET a == IF status \in {"awaiting_approval", "safety_limit_reached"}
             THEN [ss EXCEPT !.awaiting_approval = TRUE, !.approval_data = chat_history]
             ELSE ss
    IN [a EXCEPT !.multi_agent_processing = FALSE]

\* app.py: what the session keeps of the value run_multi_agent returned
\* mutant: the processing flag is left as it is after the run
AfterRun_keepsProcessing(ss, status, chat_history) ==
    IF status = "awaiting_approval"
    THEN [ss EXCEPT !.awaiting_approval = TRUE, !.approval_data = chat_history]
    ELSE IF status = "safety_limit_reached"
    THEN [ss EXCEPT !.safety_limit_reached = TRUE]
    ELSE ss

AfterRun(ss, status, chat_history) ==
    LET a == IF status = "awaiting_approval"
             THEN [ss EXCEPT !.awaiting_approval = TRUE, !.approval_data = chat_history]
             ELSE IF status = "safety_limit_reached"
             THEN [ss EXCEPT !.safety_limit_reached = TRUE]
             ELSE ss
    IN [a EXCEPT !.multi_agent_processing = FALSE]

\* the asks-for-approval branch of terminal mode
TerminalPrompts(approval) == approval

\* run_multi_agent after the loop, up to its return (terminal mode: up to input())
PostLoop ==
    /\ pc = "post_loop"
    /\ LET approval == approval_in_history(history)
           status == RunStatus(workflow_status.safety_limit_reached, approval)
       IN /\ outcome' = OutcomeOf(status)
          /\ IF mode = "streamlit"
             THEN /\ \E handled \in ClickHandled(stop_clicked) :
                       session_state' = IF handled THEN FreshSession
                                        ELSE AfterRun(session_state, status, history)
                  /\ pc' = "st_idle"
                  /\ DropRun
             ELSE /\ workflow_status' =
                        IF approval
                        THEN [workflow_status EXCEPT !.approval_ready = TRUE,
                                                     !.completed = TRUE]
                        ELSE workflow_status
                  /\ pc' = IF status # "safety_limit_reached" /\ TerminalPrompts(approval)
                           THEN "t_prompt" ELSE "t_done"
                  /\ UNCHANGED <<session_state, history, message_count, ba_asked,
                                 business_analyst_questions, iterations, is_complete,
                                 selector, loop_exit>>
    /\ stop_clicked' = FALSE
    /\ UNCHANGED <<selection, mode, push_env, decision, html_code, result_message, file, n_writes,
                   n_pushes, push_success, publisher, runs>>

\* the selection call or a role's reply call raises: nothing in run_multi_agent
\* catches it; main() of multi_agent.py and main() of app.py do
ReplyFails ==
    /\ pc = "loop"
    /\ outcome' = "Raised"
    /\ IF mode = "streamlit"
       THEN /\ \E handled \in ClickHandled(stop_clicked) :
                 session_state' =
                     IF handled THEN FreshSession
                     ELSE [session_state EXCEPT !.multi_agent_processing = FALSE]
            /\ pc' = "st_idle"
       ELSE /\ pc' = "t_done"
            /\ UNCHANGED session_state
    /\ DropRun
    /\ stop_clicked' = FALSE
    /\ UNCHANGED <<selection, mode, push_env, decision, html_code, result_message, file, n_writes,
                   n_pushes, push_success, publisher, runs>>

-----------------------------------------------------------------------------
(* Terminal mode: main() of multi_agent.py *)

TypedRequests == UserRequests \cup {<<>>, <<"sp">>}

\* main(): the request is read; an empty one ends the program
TerminalRequest ==
    /\ mode = "terminal"
    /\ pc = "t_start"
    /\ \E user_request \in TypedRequests :
         IF Strip(user_request) = <<>>
         THEN /\ pc' = "t_done"
              /\ UNCHANGED <<history, message_count, ba_asked,
                             business_analyst_questions, workflow_status, iterations,
                             is_complete, selector, loop_exit, outcome, runs>>
         ELSE BeginRun(user_request)
    /\ UNCHANGED <<selection, mode, push_env, decision, html_code, result_message, file, n_writes,
                   n_pushes, push_success, publisher, stop_clicked, session_state>>

\* the decisions a user types
TypedDecisions ==
    {<<"APPROVED">>, <<"sp", "Approved", "sp">>,
     <<"APPROVED", "x">>, <<"x", "sp", "approved">>, <<>>, <<"sp">>}

\* run_multi_agent, terminal mode: the security check and the deployment
TerminalDecision ==
    /\ pc = "t_prompt"
    /\ \E typed \in TypedDecisions :
         /\ decision' = Given(typed)
         /\ IF TerminalAccepts(typed) /\ FindHtml(history) # NoHtml
            THEN \E writeOk \in BOOLEAN, push \in PushResults :
                   /\ file' = IF writeOk THEN WriteText(file, FindHtml(history)) ELSE file
                   /\ n_writes' = IF writeOk THEN n_writes + 1 ELSE n_writes
                   /\ n_pushes' = IF writeOk THEN n_pushes + 1 ELSE n_pushes
                   /\ push_success' = IF writeOk THEN push ELSE push_success
                   /\ publisher' = IF writeOk THEN "run_multi_agent" ELSE publisher
            ELSE UNCHANGED <<file, n_writes, n_pushes, push_success, publisher>>
    /\ pc' = "t_done"
    /\ UNCHANGED <<selection, mode, push_env, stop_clicked, history, message_count, ba_asked,
                   business_analyst_questions, workflow_status, iterations,
                   is_complete, selector, loop_exit, outcome, html_code,
                   result_message, session_state, runs>>

-----------------------------------------------------------------------------
(* Streamlit mode: main() of app.py, one action per script run *)

RunLocals == <<history, message_count, ba_asked, business_analyst_questions,
               workflow_status, iterations, is_complete, selector, loop_exit>>

\* the chat input form: a request is sent
SubmitRequest ==
    /\ mode = "streamlit"
    /\ pc = "st_idle"
    /\ ~session_state.awaiting_approval
    /\ ~session_state.multi_agent_processing
    /\ ~session_state.safety_limit_reached
    /\ runs < MaxRuns
    /\ \E user_input \in UserRequests :
         /\ Strip(user_input) # <<>>
         /\ session_state' = [session_state EXCEPT !.multi_agent_processing = TRUE,
                                                   !.pending_request = Strip(user_input)]
    /\ pc' = "st_pending"
    \* the locals of the script run that handled the last decision are gone
    /\ decision' = Absent
    /\ html_code' = NoHtml
    /\ result_message' = NoResultMsg
    /\ UNCHANGED <<selection, mode, push_env, RunLocals, outcome, file, n_writes, n_pushes,
                   push_success, publisher, stop_clicked, runs>>

\* mutant: the run starts and the pending request stays in the session
ProcessPending_keepsRequest ==
    /\ pc = "st_pending"
    /\ session_state.multi_agent_processing
    /\ session_state.pending_request # NoRequest
    /\ IF session_state.reset_requested
       THEN /\ session_state' = [session_state EXCEPT !.multi_agent_processing = FALSE,
                                                      !.pending_request = NoRequest]
            /\ pc' = "st_idle"
            /\ UNCHANGED <<RunLocals, outcome, runs>>
       ELSE /\ session_state' = session_state
            /\ BeginRun(session_state.pending_request)
    /\ UNCHANGED <<selection, mode, push_env, decision, html_code, result_message, file, n_writes,
                   n_pushes, push_success, publisher, stop_clicked>>

\* the processing section: the pending request is removed and the run starts
ProcessPending ==
    /\ pc = "st_pending"
    /\ session_state.multi_agent_processing
    /\ session_state.pending_request # NoRequest
    /\ IF session_state.reset_requested
       THEN /\ session_state' = [session_state EXCEPT !.multi_agent_processing = FALSE,
                                                      !.pending_request = NoRequest]
            /\ pc' = "st_idle"
            /\ UNCHANGED <<RunLocals, outcome, runs>>
       ELSE /\ session_state' = [session_state EXCEPT !.pending_request = NoRequest]
            /\ BeginRun(session_state.pending_request)
    /\ UNCHANGED <<selection, mode, push_env, decision, html_code, result_message, file, n_writes,
                   n_pushes, push_success, publisher, stop_clicked>>

\* the Stop & Reset button, shown while multi_agent_processing
StopAndReset ==
    /\ pc = "st_pending"
    /\ session_state.multi_agent_processing
    /\ session_state' = FreshSession
    /\ pc' = "st_idle"
    /\ UNCHANGED <<selection, mode, push_env, RunLocals, outcome, decision, html_code,
                   result_message, file, n_writes, n_pushes, push_success, publisher,
                   stop_clicked, runs>>

\* mutant: the Reset button clears the flags and keeps the approval state
Reset_keepsApproval ==
    /\ mode = "streamlit"
    /\ pc = "st_idle"
    /\ ~session_state.multi_agent_processing
    /\ session_state' = [session_state EXCEPT !.deployment_result = NoDeployment,
                                              !.safety_limit_reached = FALSE,
                                              !.reset_requested = FALSE]
    /\ UNCHANGED <<selection, mode, push_env, pc, RunLocals, outcome, decision, html_code,
                   result_message, file, n_writes, n_pushes, push_success, publisher,
                   stop_clicked, runs>>

\* the Reset button, shown while not multi_agent_processing
Reset ==
    /\ mode = "streamlit"
    /\ pc = "st_idle"
    /\ ~session_state.multi_agent_processing
    /\ session_state' = FreshSession
    /\ UNCHANGED <<selection, mode, push_env, pc, RunLocals, outcome, decision, html_code,
                   result_message, file, n_writes, n_pushes, push_success, publisher,
                   stop_clicked, runs>>

\* the Start New Project button under the deployment result
StartNewProject ==
    /\ mode = "streamlit"
    /\ pc = "st_idle"
    /\ session_state.deployment_result.present
    /\ session_state' = FreshSession
    /\ UNCHANGED <<selection, mode, push_env, pc, RunLocals, outcome, decision, html_code,
                   result_message, file, n_writes, n_pushes, push_success, publisher,
                   stop_clicked, runs>>

\* the Start New Project button of the safety limit section
SafetyStartNew ==
    /\ mode = "streamlit"
    /\ pc = "st_idle"
    /\ session_state.safety_limit_reached
    /\ session_state' = FreshSession
    /\ UNCHANGED <<selection, mode, push_env, pc, RunLocals, outcome, decision, html_code,
                   result_message, file, n_writes, n_pushes, push_success, publisher,
                   stop_clicked, runs>>

\* what the form stores of a result returned by handle_approval
DeploymentData(code, message) ==
    [present |-> TRUE, success |-> TRUE, html_content |-> code,
     links |-> message.push_success]

\* mutant: the approval state is kept after the call of handle_approval
ConsumeApproval_never(ss) == ss

\* the two assignments after the try statement around handle_approval
ConsumeApproval(ss) == [ss EXCEPT !.awaiting_approval = FALSE, !.approval_data = NoData]

\* the approval form: a decision is submitted
SubmitDecision ==
    /\ mode = "streamlit"
    /\ pc = "st_idle"
    /\ session_state.awaiting_approval
    /\ session_state.approval_data # NoData
    /\ \E approval_text \in TypedDecisions :
         /\ decision' = Given(approval_text)
         /\ IF FormAccepts(approval_text)
            THEN \E writeOk \in BOOLEAN, push \in PushResults :
                 LET r == handle_approval(session_state.approval_data,
                                          Given(Strip(approval_text)), writeOk, push)
                 IN /\ html_code' = r.html_code
                    /\ result_message' = r.result_message
                    /\ file' = IF r.wrote
                               THEN WriteText(file, FindHtml(session_state.approval_data))
                               ELSE file
                    /\ n_writes' = IF r.wrote THEN n_writes + 1 ELSE n_writes
                    /\ n_pushes' = IF r.pushed THEN n_pushes + 1 ELSE n_pushes
                    /\ push_success' = IF r.pushed THEN push ELSE push_success
                    /\ publisher' = IF r.wrote THEN "handle_approval" ELSE publisher
                    /\ session_state' =
                         ConsumeApproval(
                            [session_state EXCEPT
                               !.deployment_result =
                                   IF r.html_code # NoHtml
                                   THEN DeploymentData(r.html_code, r.result_message)
                                   ELSE @])
            ELSE /\ session_state' = IF Strip(approval_text) # <<>>
                                     THEN FreshSession ELSE session_state
                 /\ UNCHANGED <<html_code, result_message, file, n_writes, n_pushes,
                                push_success, publisher>>
    /\ UNCHANGED <<selection, mode, push_env, stop_clicked, pc, RunLocals, outcome, runs>>

\* the Stop & Reset button is pressed while run_multi_agent is running: the
\* loop of run_multi_agent does not look at the session
ClickStop ==
    /\ mode = "streamlit"
    /\ pc = "loop"
    /\ session_state.multi_agent_processing
    /\ ~stop_clicked
    /\ stop_clicked' = TRUE
    /\ UNCHANGED <<selection, mode, push_env, pc, RunLocals, outcome, decision, html_code,
                   result_message, file, n_writes, n_pushes, push_success, publisher,
                   session_state, runs>>

-----------------------------------------------------------------------------

Init ==
    /\ mode \in {"terminal", "streamlit"}
    /\ pc = IF mode = "terminal" THEN "t_start" ELSE "st_idle"
    /\ history = <<>>
    /\ decision = Absent
    /\ push_env = NoEnv
    /\ selection = NoSelection
    /\ Quiet

Next ==
    \/ TerminalRequest
    \/ Turn
    \/ ReplyFails
    \/ PostLoop
    \/ TerminalDecision
    \/ SubmitRequest
    \/ ProcessPending
    \/ StopAndReset
    \/ Reset
    \/ StartNewProject
    \/ SafetyStartNew
    \/ SubmitDecision
    \/ ClickStop

Spec == Init /\ [][Next]_vars

\* a script run that has started goes on: the processing section starts the
\* run, the awaited loop takes its turns, and the code after the loop runs
SpecLive ==
    /\ Spec
    /\ WF_vars(ProcessPending)
    /\ WF_vars(Turn)
    /\ WF_vars(PostLoop)

-----------------------------------------------------------------------------
(* Properties *)

\* isApproved of the specification: trim, upper-case, compare with the token
IsApproved(text) == Upper(Strip(text)) = <<"APPROVED">>

\* a step that writes the output file or invokes the push step
Publishes == n_writes' # n_writes \/ n_pushes' # n_pushes \/ file' # file

\* a ProductOwner message with the ready marker among the last 5 messages of h
ReviewerReady(h) ==
    \E i \in 1..Len(h) :
       /\ i > Len(h) - 5
       /\ h[i].name = "ProductOwner"
       /\ \E k \in 1..Len(h[i].content) : Upper(h[i].content)[k] = "RFUA"

\* C1: in terminal and Streamlit mode, every step that writes the output file
\* or invokes the push step is taken while the last run's outcome is
\* ReadyForApproval, on a user-entered decision that equals APPROVED after
\* trimming and upper-casing.
C1_PublishOnlyAfterReadyAndApproved ==
    [][Publishes => /\ outcome = "ReadyForApproval"
                    /\ decision'.given
                    /\ IsApproved(decision'.text)]_vars

\* C1 witness: a write and a push have happened on a padded, mixed-case decision
C1_Witness ==
    /\ n_writes = 1
    /\ n_pushes = 1
    /\ decision = Given(<<"sp", "Approved", "sp">>)

\* C2: a call of handle_approval with a decision string that is not approved
\* writes nothing, pushes nothing and returns no artifact and a NotApproved
\* message carrying the rejected text.
C2_RejectedDecisionPublishesNothing ==
    (pc = "gate_done" /\ decision.given /\ ~IsApproved(decision.text))
        => /\ n_writes = 0
           /\ n_pushes = 0
           /\ file = <<>>
           /\ html_code = NoHtml
           /\ result_message.kind = "not_approved"
           /\ result_message.typed = decision.text

\* C2 witness: the gate has returned on "not approved" with a history that
\* holds an artifact
C2_Witness ==
    /\ pc = "gate_done"
    /\ decision = Given(<<"x", "sp", "approved">>)
    /\ FindHtml(history) # NoHtml
    /\ result_message.kind = "not_approved"

\* C3: a call of handle_approval with the decision omitted or None writes
\* nothing and pushes nothing.
C3_AbsentDecisionRefused ==
    (pc = "gate_done" /\ ~decision.given) => (n_writes = 0 /\ n_pushes = 0)

\* C4: handle_approval accepts a decision string exactly when the string,
\* trimmed and upper-cased, equals APPROVED, and so accepts the same strings
\* as the terminal check and the Streamlit form check.
C4_GateAcceptsTrimmedUpper ==
    (pc = "gate_done" /\ decision.given)
        => LET accepted == result_message.kind # "not_approved"
           IN /\ accepted = IsApproved(decision.text)
              /\ accepted = TerminalAccepts(decision.text)
              /\ accepted = FormAccepts(decision.text)

\* C5: the completion detector returns true exactly when at least one of the
\* last 5 messages is a ProductOwner message whose upper-cased text contains
\* the ready marker; older messages do not count.
C5_DetectorAnyOfLastFive ==
    pc = "detector_done" => (is_complete <=> ReviewerReady(history))

\* C5 witness: a history of 6 messages whose oldest message is a ProductOwner
\* message with the marker, and the detector has answered false
C5_Witness ==
    /\ pc = "detector_done"
    /\ Len(history) = 6
    /\ history[1] = AgentMsg(PO, <<"RFUA">>)
    /\ ~is_complete

\* C6: the completion detector returns true exactly when the most recent
\* ProductOwner message among the last 5 messages contains the ready marker.
C6_DetectorMostRecentReviewer ==
    pc = "detector_done" =>
        LET first == IF Len(history) > 5 THEN Len(history) - 4 ELSE 1
            rev == {i \in first..Len(history) : history[i].name = "ProductOwner"}
        IN is_complete <=>
             /\ rev # {}
             /\ LET last == CHOOSE i \in rev : \A j \in rev : j <= i
                IN \E k \in 1..Len(history[last].content) :
                      Upper(history[last].content)[k] = "RFUA"

\* the messages a state still holds of the last run
Kept == IF mode = "streamlit" /\ pc = "st_idle" THEN session_state.approval_data
        ELSE history

\* C7: readiness is never signalled without a ProductOwner message carrying
\* the marker: neither the termination strategy (is_complete), nor the in-loop
\* check (approval_ready), nor the check after the loop (the terminal prompt,
\* awaiting_approval) is triggered by the marker in another speaker's message.
C7_OnlyReviewerSignalsReady ==
    /\ (pc \in {"loop", "post_loop"} /\ is_complete) => ReviewerReady(history)
    /\ workflow_status.approval_ready => ReviewerReady(history)
    /\ pc = "t_prompt" => ReviewerReady(history)
    /\ outcome = "ReadyForApproval" /\ pc = "t_done" => ReviewerReady(history)
    /\ session_state.awaiting_approval => ReviewerReady(session_state.approval_data)

\* C7 witness: a run has ended as Incomplete although the human request and
\* the last BusinessAnalyst messages contain the marker
C7_Witness ==
    /\ pc = "t_done"
    /\ outcome = "Incomplete"
    /\ Len(history) > 5
    /\ ContainsMarker(history[1].content)
    /\ history[Len(history)].name = BA
    /\ ContainsMarker(history[Len(history)].content)

\* C8: a run takes at most 21 turns.
C8_AtMost21Turns == iterations <= 21

\* C9: the turn loop ends by the driver's own bound or by readiness, never
\* because the chat framework stopped iterating.
C9_DriverBoundEndsLoop ==
    pc = "post_loop" => loop_exit \in {"break_ready", "break_safety", "complete"}

\* C10: no step writes the output file or invokes the push step inside the
\* turn loop, nor while the last run's outcome is SafetyLimitExceeded or
\* Incomplete.
C10_NoPublishWithoutReadiness ==
    [][(pc \in {"loop", "post_loop"}
        \/ outcome \in {"Pending", "SafetyLimitExceeded", "Incomplete"})
       => ~Publishes]_vars

\* C10 witness: in a Streamlit session whose first run was deployed, a later
\* run has ended at the safety limit
C10_Witness ==
    /\ mode = "streamlit"
    /\ outcome = "SafetyLimitExceeded"
    /\ session_state.safety_limit_reached
    /\ n_writes = 1

\* C11: in the recorded history of a run no two consecutive messages are both
\* BusinessAnalyst messages (the only human message is the first one).
C11_NoConsecutiveRequirementsTurns ==
    \A i \in 1..(Len(history) - 1) :
        ~(history[i].name = "BusinessAnalyst" /\ history[i + 1].name = "BusinessAnalyst")

\* a SoftwareEngineer message whose extracted text is longer than 50 characters
Qualifies(m) == m.name = "SoftwareEngineer" /\ StrLen(extract_html(m.content)) > 50

C13_PushOnlyAfterWrite ==
    pc = "gate_done" =>
        /\ n_pushes <= n_writes
        /\ result_message.kind = "save_failed" =>
              /\ n_pushes = 0
              /\ push_success = "None"
              /\ html_code = NoHtml
              /\ file = <<>>

\* C13 witness: the gate has returned from a failed write
C13_Witness ==
    /\ pc = "gate_done"
    /\ result_message.kind = "save_failed"
    /\ n_writes = 0

\* C14: when the push step returns failure after a successful write,
\* handle_approval returns the artifact and a result that reports the local
\* file, and the written file stays in place.
C14_FailedPushKeepsLocalSave ==
    (pc = "gate_done" /\ n_writes = 1 /\ push_success = "False") =>
        /\ html_code # NoHtml
        /\ file = html_code
        /\ result_message.kind = "saved"
        /\ ~result_message.push_success
        /\ result_message.size = StrLen(file)

\* C14 witness: the gate has written the file and the push step has failed
C14_Witness ==
    /\ pc = "gate_done"
    /\ n_writes = 1
    /\ n_pushes = 1
    /\ push_success = "False"
    /\ file # <<>>

C16_PushStepNeverRaises ==
    pc = "push_done" =>
        /\ push_success \in {"True", "False"}
        /\ push_success = "True" <=>
              /\ push_env.script
              /\ (push_env.which_bash # "none" \/ push_env.program_files_bash
                  \/ push_env.sh)
              /\ push_env.run = "exit0"

\* C16 witness: the started process failed with an exception that is not a
\* timeout and the push step has returned False
C16_Witness ==
    /\ pc = "push_done"
    /\ push_env.script
    /\ push_env.which_bash = "none"
    /\ ~push_env.program_files_bash
    /\ push_env.sh
    /\ push_env.run = "OSError"
    /\ push_success = "False"

\* C17: no run ends by an exception that leaves run_multi_agent: a run in
\* which a reply call failed ends with an outcome of its own.
C17_ReplyFailureEndsIncomplete == outcome # "Raised"

\* C18: once Stop & Reset has been pressed during a run, the run takes no
\* further turn: no further reply is appended to the history.
C18_NoTurnAfterCancel ==
    [][(stop_clicked /\ pc = "loop") => (history' = history /\ iterations' = iterations)]_vars

\* a submitted decision that is a rejection
Rejection ==
    /\ SubmitDecision
    /\ Strip(decision'.text) # <<>>
    /\ ~IsApproved(decision'.text)

\* C19: every reset action of app.py (Stop & Reset, Reset, Start New Project,
\* rejection) leaves awaiting_approval false and approval_data empty, and
\* awaiting_approval becomes true again only when a run returns, with the
\* history of that run as approval_data.
C19_ResetClearsApproval ==
    [][/\ (StopAndReset \/ Reset \/ StartNewProject \/ SafetyStartNew \/ Rejection)
            => /\ ~session_state'.awaiting_approval
               /\ session_state'.approval_data = NoData
       /\ (session_state'.awaiting_approval /\ ~session_state.awaiting_approval)
            => /\ pc = "post_loop"
               /\ session_state'.approval_data = history
       /\ session_state'.approval_data # session_state.approval_data
            => (session_state'.approval_data = NoData \/ pc = "post_loop")]_vars

\* C19 witness: a reset has cleared a session whose second run had ended
\* ready for approval, before any decision was submitted
C19_Witness ==
    /\ mode = "streamlit"
    /\ pc = "st_idle"
    /\ runs = 2
    /\ outcome = "ReadyForApproval"
    /\ decision = Absent
    /\ session_state = FreshSession

\* C20: every step that writes the output file or invokes the push step is a
\* call of handle_approval.
C20_GateIsSingleChokePoint ==
    [][Publishes => publisher' = "handle_approval"]_vars

\* C21: _extract_html returns the trimmed text between the first fence tagged
\* html, in any case, that is followed by a fence, and the first fence after
\* it; without such a pair it returns the trimmed text; it always returns.
C21_ExtractFirstHtmlFence ==
    pc = "extract_done" =>
        LET text == history[1].content
            fences == {i \in 1..Len(text) : text[i] \in {"F", "FH", "Fh"}}
            complete == {i \in fences : /\ text[i] \in {"FH", "Fh"}
                                        /\ \E j \in fences : j > i}
        IN /\ html_code = <<>> \/ (Head(html_code) # "sp" /\ html_code[Len(html_code)] # "sp")
           /\ IF complete = {}
              THEN html_code = Strip(text)
              ELSE \E i \in complete, j \in fences :
                      /\ \A k \in complete : i <= k
                      /\ j > i
                      /\ \A k \in fences : k > i => j <= k
                      /\ html_code = Strip(SubSeq(text, i + 1, j - 1))
           /\ text = <<"w", "sp", "w", "sp", "w">> => html_code = text
           /\ text = <<"w", "sp", "FH", "sp", "big", "sp", "F", "sp", "w">>
                 => html_code = <<"big">>

\* C21 witness: the extractor has returned the interior of a fence tagged in
\* upper case, without the whitespace around it
C21_Witness ==
    /\ pc = "extract_done"
    /\ history[1].content = <<"Fh", "small", "sp", "F">>
    /\ html_code = <<"small">>

\* C22: when the loop has ended with no ProductOwner marker in the last 5
\* messages and without the safety flag, the run ends as Incomplete: it does
\* not ask for approval and does not report the safety limit.
C22_NoMarkerNoLimitIsIncomplete ==
    [][(/\ pc = "post_loop"
        /\ ~ReviewerReady(history)
        /\ ~workflow_status.safety_limit_reached)
       => /\ outcome' = "Incomplete"
          /\ pc' # "t_prompt"
          /\ ~session_state'.awaiting_approval
          /\ ~session_state'.safety_limit_reached]_vars

\* C22 witness: a Streamlit run has returned incomplete
C22_Witness ==
    /\ mode = "streamlit"
    /\ pc = "st_idle"
    /\ outcome = "Incomplete"
    /\ ~session_state.multi_agent_processing
    /\ ~session_state.awaiting_approval

\* C23: in app.py an approved submission clears awaiting_approval and drops
\* approval_data whatever handle_approval returned; a write or push is only
\* made by a step that consumes the approval state, so there are never more
\* pushes than runs.
C23_ApprovalConsumedOnce ==
    [][/\ (SubmitDecision /\ IsApproved(decision'.text))
            => /\ ~session_state'.awaiting_approval
               /\ session_state'.approval_data = NoData
       /\ (mode = "streamlit" /\ Publishes)
            => /\ session_state.awaiting_approval
               /\ ~session_state'.awaiting_approval
       /\ mode = "streamlit" => (n_pushes' <= runs' /\ n_writes' <= runs')]_vars

\* C23 witness: an approved submission found no artifact and the approval
\* state is gone
C23_Witness ==
    /\ mode = "streamlit"
    /\ decision.given
    /\ IsApproved(decision.text)
    /\ result_message.kind = "no_html"
    /\ ~session_state.awaiting_approval
    /\ session_state.approval_data = NoData
    /\ n_writes = 0

\* C24: every submitted decision that is not the approval token, the empty
\* one included, writes and pushes nothing and resets the session.
C24_EveryOtherDecisionRejects ==
    [][(SubmitDecision /\ ~IsApproved(decision'.text))
       => (~Publishes /\ session_state' = FreshSession)]_vars

\* C25: a second call of handle_approval with the same history and decision
\* after a call that saved writes and pushes again, and the output file then
\* holds the artifact once, as after the first call.
C25_SecondCallRepeatsPublish ==
    pc = "gate_again" =>
        /\ n_pushes = n_writes
        /\ n_writes >= 1
        /\ result_message.kind \in {"saved", "save_failed"}
        /\ \E i \in 1..Len(history) :
              /\ Qualifies(history[i])
              /\ \A j \in 1..(i - 1) : ~Qualifies(history[j])
              /\ file = extract_html(history[i].content)
        /\ result_message.kind = "saved" =>
              /\ n_writes = 2
              /\ n_pushes = 2
              /\ html_code = file

\* C25 witness: two calls have written and pushed
C25_Witness ==
    /\ pc = "gate_again"
    /\ n_writes = 2
    /\ n_pushes = 2
    /\ file = <<"big">>

\* C26: when the target location has no version-control metadata, the push
\* step ends in a result that is neither the result of a successful push nor
\* the result of a failed push.
C26_LocalSaveOnlyResult ==
    (pc = "push_done" /\ ~push_env.git_dir) => push_success \notin {"True", "False"}

\* C27: when the message that brings the count of the run above 20 is a
\* ProductOwner message with the marker, the run is flagged ready and not
\* stopped by the safety limit, and its outcome is ReadyForApproval.
C27_ReadyBeforeSafety ==
    (/\ pc \in {"post_loop", "t_prompt", "t_done"}
     /\ message_count > 20
     /\ Len(history) > 0
     /\ history[Len(history)].name = "ProductOwner"
     /\ \E k \in 1..Len(history[Len(history)].content) :
            Upper(history[Len(history)].content)[k] = "RFUA")
    => /\ workflow_status.approval_ready
       /\ ~workflow_status.safety_limit_reached
       /\ pc # "post_loop" => outcome = "ReadyForApproval"

\* C27 witness: the 21st counted message was the ProductOwner's marker and the
\* terminal asks for the decision
C27_Witness ==
    /\ pc = "t_prompt"
    /\ message_count = 21
    /\ outcome = "ReadyForApproval"

\* C28: once the driver has flagged the run ready or stopped by the safety
\* limit, the loop is over, no further turn is taken, nothing is appended to
\* the history of the run, and the outcome is the one of the flag and stays.
C28_OutcomeWriteOnce ==
    [][(workflow_status.approval_ready \/ workflow_status.safety_limit_reached)
       => /\ pc # "loop"
          /\ ~(workflow_status.approval_ready /\ workflow_status.safety_limit_reached)
          /\ iterations' <= iterations
          /\ history' = history \/ history' = <<>>
          /\ outcome' = IF workflow_status.safety_limit_reached
                        THEN "SafetyLimitExceeded" ELSE "ReadyForApproval"]_vars

\* C28 witness: a terminal run has ended at the safety limit
C28_Witness ==
    /\ pc = "t_done"
    /\ outcome = "SafetyLimitExceeded"
    /\ workflow_status.safety_limit_reached
    /\ message_count = 21

\* C29: a history with 3 or more BusinessAnalyst replies holds the
\* synthesized completion message.
C29_EscapeValveFires ==
    (/\ pc \in {"loop", "post_loop"}
     /\ Cardinality({i \in 1..Len(history) :
                        /\ history[i].name = "BusinessAnalyst"
                        /\ history[i] # SynthesizedMsg}) >= 3)
    => \E i \in 1..Len(history) : history[i] = SynthesizedMsg

\* C30: during a run the history starts with the human message, and the
\* first reply after it is a BusinessAnalyst reply.
C30_FirstTurnIsRequirements ==
    pc \in {"loop", "post_loop"} =>
        /\ Len(history) >= 1
        /\ history[1].role = "user"
        /\ Len(history) >= 2 => history[2].name = "BusinessAnalyst"

\* the text holds a fenced code block
HasCodeBlock(text) ==
    \E i, j \in 1..Len(text) :
        /\ i < j
        /\ text[i] \in {"FH", "Fh", "F"}
        /\ text[j] \in {"FH", "Fh", "F"}

\* C31: during a run, the message after a SoftwareEngineer message that
\* holds a fenced code block is a ProductOwner message.
C31_ReviewerFollowsBuilderCode ==
    pc \in {"loop", "post_loop"} =>
        \A i \in 1..(Len(history) - 1) :
            (/\ history[i].name = "SoftwareEngineer"
             /\ HasCodeBlock(history[i].content))
            => history[i + 1].name = "ProductOwner"

\* C34: in the turn loop business_analyst_questions is at most 1; once
\* ba_asked is true it stays true for the rest of the run, and a later
\* BusinessAnalyst message is appended without being counted or checked:
\* message_count, business_analyst_questions and workflow_status keep
\* their values.
C34_OneCountedQuestion ==
    [][pc' \in {"loop", "post_loop"} =>
        /\ business_analyst_questions' <= 1
        /\ (pc = "loop" /\ ba_asked) =>
             /\ ba_asked'
             /\ (/\ Len(history') > Len(history)
                 /\ history'[Len(history) + 1].name = "BusinessAnalyst")
                => /\ message_count' = message_count
                   /\ business_analyst_questions' = business_analyst_questions
                   /\ workflow_status' = workflow_status]_vars

\* a run in which a second, non-consecutive BusinessAnalyst message was skipped
C34_Witness ==
    /\ pc \in {"loop", "post_loop"}
    /\ business_analyst_questions = 1
    /\ ba_asked
    /\ \E i, j, k \in 1..Len(history) :
        /\ i < j
        /\ j < k
        /\ history[i].name = "BusinessAnalyst"
        /\ history[j].name = "SoftwareEngineer"
        /\ history[k].name = "BusinessAnalyst"

\* the messages of h written by an agent
AgentAuthored(h) == {i \in 1..Len(h) : h[i].name \in {BA, SE, PO}}

\* the BusinessAnalyst messages of h after the first one
LaterQuestions(h) ==
    {i \in AgentAuthored(h) :
        /\ h[i].name = BA
        /\ \E j \in 1..(i - 1) : h[j].name = BA}

\* C35: in the turn loop message_count is the number of agent-authored
\* messages of the history minus the skipped BusinessAnalyst messages: it is
\* at most the number of agent-authored messages, and equal to it exactly
\* when no BusinessAnalyst message was skipped.
C35_CountSkipsQuestions ==
    pc \in {"loop", "post_loop"} =>
        /\ message_count <= Cardinality(AgentAuthored(history))
        /\ message_count = Cardinality(AgentAuthored(history))
                           - Cardinality(LaterQuestions(history))
        /\ (message_count = Cardinality(AgentAuthored(history)))
           <=> (LaterQuestions(history) = {})

\* a run with a skipped BusinessAnalyst message: the history is longer than
\* the count
C35_Witness ==
    /\ pc \in {"loop", "post_loop"}
    /\ LaterQuestions(history) # {}
    /\ message_count >= 2
    /\ message_count < Cardinality(AgentAuthored(history))

\* C33: during a run every step keeps the messages already in the history
\* at their positions, and the history grows only by a turn, which appends
\* exactly one message; turns are taken one at a time.
C33_HistoryAppendOnly ==
    [][(pc \in {"loop", "post_loop"} /\ pc' \in {"loop", "post_loop"}) =>
        /\ Len(history') >= Len(history)
        /\ SubSeq(history', 1, Len(history)) = history
        /\ iterations' \in {iterations, iterations + 1}
        /\ Len(history') = Len(history) + (iterations' - iterations)]_vars

\* a run after three turns: the human message and one message per turn
C33_Witness ==
    /\ pc = "loop"
    /\ iterations = 3
    /\ Len(history) = 4
    /\ history[1].role = "user"

\* C36: when the loop of a run has ended, safety_limit_reached and a
\* ProductOwner marker among the last 5 messages never hold together.
C36_TerminalFlagsExclusive ==
    pc = "post_loop" =>
        ~(workflow_status.safety_limit_reached /\ ReviewerReady(history))

\* a run stopped by the safety limit whose last 5 messages hold ProductOwner
\* messages, none of them with the marker
C36_Witness ==
    /\ pc = "post_loop"
    /\ workflow_status.safety_limit_reached
    /\ loop_exit = "break_safety"
    /\ \E i \in 1..Len(history) :
          /\ i > Len(history) - 5
          /\ history[i].name = "ProductOwner"
    /\ ~approval_in_history(history)

\* the text holds a complete html fence
HasHtmlFence(text) ==
    \E i, j \in 1..Len(text) :
        /\ i < j
        /\ text[i] \in {"FH", "Fh"}
        /\ text[j] \in {"F", "FH", "Fh"}

\* the extraction rule with its fallback: the inside of the first html fence,
\* or the whole text when there is no complete fence, trimmed
FenceOrWhole(text) == IF HasHtmlFence(text) THEN extract_html(text) ELSE Strip(text)

\* C37: the artifact handle_approval has written is the extraction, by the
\* rule with its fallback, of the first SoftwareEngineer message whose
\* extraction is longer than 50 characters; such a message without a
\* complete html fence is written in full, trimmed.
C37_ArtifactByExtractionRule ==
    (pc \in {"gate_done", "gate_again"} /\ result_message.kind = "saved") =>
        LET q == {i \in 1..Len(history) :
                     /\ history[i].name = "SoftwareEngineer"
                     /\ StrLen(FenceOrWhole(history[i].content)) > 50}
        IN /\ q # {}
           /\ \A i \in q :
                 (\A j \in q : i <= j) =>
                     /\ file = FenceOrWhole(history[i].content)
                     /\ html_code = file
                     /\ ~HasHtmlFence(history[i].content)
                        => file = Strip(history[i].content)

\* the gate has written a SoftwareEngineer message without any fence in
\* full, although a later message holds an html fence
C37_Witness ==
    /\ pc = "gate_done"
    /\ result_message.kind = "saved"
    /\ history[2] = AgentMsg(SE, PlainBig)
    /\ history[3] = AgentMsg(SE, HtmlBig)
    /\ file = <<"big", "sp", "w">>

\* C40: while a submitted request is pending, and while a run's result is
\* awaiting approval, the session holds no deployment result.
C40_DeploymentResultOfLatestRequest ==
    (/\ mode = "streamlit"
     /\ \/ session_state.pending_request # NoRequest
        \/ session_state.awaiting_approval)
    => ~session_state.deployment_result.present

\* C38: in a Streamlit session a run starts only from a pending request,
\* which is removed from the session by the step that starts the run, so
\* while a run is in progress no request is pending; and a request becomes
\* pending only while none of multi_agent_processing, awaiting_approval and
\* safety_limit_reached is set and no run is in progress.
C38_OneRunPerRequest ==
    [][mode = "streamlit" =>
        /\ runs' # runs =>
             /\ runs' = runs + 1
             /\ pc = "st_pending"
             /\ session_state.pending_request # NoRequest
             /\ session_state'.pending_request = NoRequest
        /\ pc' \in {"loop", "post_loop"} =>
             /\ session_state'.pending_request = NoRequest
             /\ session_state'.multi_agent_processing
        /\ (/\ session_state'.pending_request # NoRequest
            /\ session_state'.pending_request # session_state.pending_request) =>
             /\ ~session_state.multi_agent_processing
             /\ ~session_state.awaiting_approval
             /\ ~session_state.safety_limit_reached
             /\ pc \notin {"loop", "post_loop"}]_vars

\* the run of the second request of a session is in progress
C38_Witness ==
    /\ mode = "streamlit"
    /\ pc = "loop"
    /\ runs = 2
    /\ iterations >= 1
    /\ session_state.pending_request = NoRequest
    /\ session_state.multi_agent_processing

\* C39: a session that is in the processing state eventually leaves it:
\* whatever the run returns, and when it raises, multi_agent_processing is
\* set back to false.
C39_ProcessingEnds ==
    session_state.multi_agent_processing ~> ~session_state.multi_agent_processing

\* a run of a Streamlit session has raised and the session is no longer
\* processing
C39_Witness ==
    /\ mode = "streamlit"
    /\ pc = "st_idle"
    /\ runs >= 1
    /\ outcome = "Raised"
    /\ ~session_state.multi_agent_processing
    /\ ~session_state.awaiting_approval

\* C32: parse_agent_selection returns one of the three role names for every
\* answer: SoftwareEngineer when the upper-cased answer contains ENGINEER,
\* also when it contains PRODUCTOWNER too; otherwise ProductOwner when it
\* contains PRODUCTOWNER; otherwise BusinessAnalyst.
C32_ParserTotalWithPrecedence ==
    pc = "parse_done" =>
        LET u == [i \in 1..Len(selection.output) |-> UpperTok(selection.output[i])]
            engineer == \E i \in 1..Len(u) : u[i] \in {"SOFTWAREENGINEER", "ENGINEER"}
            owner == \E i \in 1..Len(u) :
                        \/ u[i] = "PRODUCTOWNER"
                        \/ i < Len(u) /\ u[i] = "PRODUCT" /\ u[i + 1] = "OWNER"
        IN /\ selection.name \in {"SoftwareEngineer", "ProductOwner", "BusinessAnalyst"}
           /\ selection.name = IF engineer THEN "SoftwareEngineer"
                               ELSE IF owner THEN "ProductOwner"
                               ELSE "BusinessAnalyst"

\* an answer naming the ProductOwner and then an engineer has been parsed
\* as SoftwareEngineer
C32_Witness ==
    /\ pc = "parse_done"
    /\ selection.output = <<"ProductOwner", "sp", "engineer">>
    /\ selection.name = "SoftwareEngineer"

====
